---- MODULE Spec2Model ----
(***************************************************************************)
(* Medal-boundary algorithms of medalbound/algorithms.py.                  *)
(*                                                                         *)
(* The algorithms are stateless: a call takes the cumulative statistics,   *)
(* the goal proportions and the already known boundaries and returns a     *)
(* boundary vector or raises.  The state of the model is one call: its     *)
(* arguments, the algorithm object it is made on, and what it returned.    *)
(*                                                                         *)
(* Python sequences are 0-based, TLA+ sequences 1-based: Python s[i] is    *)
(* s[i+1] here, Python s[-1] is s[Len(s)], Python s[-2] is s[Len(s)-1].    *)
(* fractions.Fraction is a pair <<numerator, denominator>> in lowest       *)
(* terms with a positive denominator.  Python None is the value None.      *)
(***************************************************************************)
EXTENDS Integers, Sequences, FiniteSets

VARIABLES cum_stats, goal, known_bound, alg, ret

vars == <<cum_stats, goal, known_bound, alg, ret>>

(* Bounds of the inputs that are enumerated. *)
MaxCount == 3
MaxLen == 3

(* Python's None, outside the contestant counts (which are >= 0). *)
None == -1

(***************************************************************************)
(* fractions.Fraction                                                      *)
(***************************************************************************)
Abs(x) == IF x < 0 THEN -x ELSE x

RECURSIVE Gcd(_, _)
Gcd(a, b) == IF b = 0 THEN a ELSE Gcd(b, a % b)

Fraction(n, d) ==
    LET g == Gcd(Abs(n), Abs(d))
        s == IF d < 0 THEN -1 ELSE 1
    IN  <<(s * n) \div g, (s * d) \div g>>

FromInt(n) == <<n, 1>>

FrAdd(a, b) == Fraction(a[1] * b[2] + b[1] * a[2], a[2] * b[2])

FrSub(a, b) == Fraction(a[1] * b[2] - b[1] * a[2], a[2] * b[2])

FrMul(a, b) == Fraction(a[1] * b[1], a[2] * b[2])

FrDiv(a, b) == Fraction(a[1] * b[2], a[2] * b[1])

FrAbs(a) == <<Abs(a[1]), a[2]>>

RECURSIVE FrPow(_, _)
FrPow(a, p) == IF p = 0 THEN FromInt(1) ELSE FrMul(a, FrPow(a, p - 1))

FrLt(a, b) == a[1] * b[2] < b[1] * a[2]

FrLe(a, b) == a[1] * b[2] <= b[1] * a[2]

FrEq(a, b) == a[1] * b[2] = b[1] * a[2]

(* sum(s[0:n]) *)
RECURSIVE SumPrefix(_, _)
SumPrefix(s, n) == IF n = 0 THEN 0 ELSE s[n] + SumPrefix(s, n - 1)

Sum(s) == SumPrefix(s, Len(s))

(***************************************************************************)
(* Results of a call: a returned value, or the exception raised.           *)
(***************************************************************************)
Returned(v) == [err |-> "", val |-> v]

Raised(e) == [err |-> e, val |-> <<>>]

ErrContestants == "Ideal number of medals exceeds number of contestants"

ErrInconsistency == "Inconsistency in number of possible awards"

ErrNoAdmissible == "No admissible boundaries found"

ErrType == "TypeError"

(***************************************************************************)
(* get_cum_alternatives                                                    *)
(***************************************************************************)
(* The loop body at Python index i-1, num_below as left by the later       *)
(* indices; i = 0 is the fall-through to the raise.                        *)
RECURSIVE cum_alternatives_loop(_, _, _, _)

(* Mutant: num_below is only taken from counts strictly below the ideal. *)
RECURSIVE cum_alternatives_loop_strict(_, _, _, _)
cum_alternatives_loop_strict(ideal_cum, stats, i, num_below) ==
    IF i = 0
    THEN Raised(ErrContestants)
    ELSE LET below == IF FrLt(FromInt(stats[i]), ideal_cum)
                      THEN stats[i] ELSE num_below
         IN  IF FrLe(ideal_cum, FromInt(stats[i]))
             THEN Returned(<<below, stats[i]>>)
             ELSE cum_alternatives_loop_strict(ideal_cum, stats, i - 1, below)

(* Mutant: num_below is set to the index instead of the count at the index. *)
RECURSIVE cum_alternatives_loop_index(_, _, _, _)
cum_alternatives_loop_index(ideal_cum, stats, i, num_below) ==
    IF i = 0
    THEN Raised(ErrContestants)
    ELSE LET below == IF FrLe(FromInt(stats[i]), ideal_cum)
                      THEN i - 1 ELSE num_below
         IN  IF FrLe(ideal_cum, FromInt(stats[i]))
             THEN Returned(<<below, stats[i]>>)
             ELSE cum_alternatives_loop_index(ideal_cum, stats, i - 1, below)

(* Mutant: past the largest count, the largest count is returned as both   *)
(* alternatives instead of an error.                                       *)
RECURSIVE cum_alternatives_loop_clamped(_, _, _, _)
cum_alternatives_loop_clamped(ideal_cum, stats, i, num_below) ==
    IF i = 0
    THEN Returned(<<num_below, num_below>>)
    ELSE LET below == IF FrLe(FromInt(stats[i]), ideal_cum)
                      THEN stats[i] ELSE num_below
         IN  IF FrLe(ideal_cum, FromInt(stats[i]))
             THEN Returned(<<below, stats[i]>>)
             ELSE cum_alternatives_loop_clamped(ideal_cum, stats, i - 1, below)

cum_alternatives_loop(ideal_cum, stats, i, num_below) ==
    IF i = 0
    THEN Raised(ErrContestants)
    ELSE LET below == IF FrLe(FromInt(stats[i]), ideal_cum)
                      THEN stats[i] ELSE num_below
         IN  IF FrLe(ideal_cum, FromInt(stats[i]))
             THEN Returned(<<below, stats[i]>>)
             ELSE cum_alternatives_loop(ideal_cum, stats, i - 1, below)

get_cum_alternatives(ideal_cum, stats) ==
    cum_alternatives_loop(ideal_cum, stats, Len(stats), 0)

(***************************************************************************)
(* MarginAlgorithm                                                         *)
(***************************************************************************)
(* Mutant: strict_ineq is ignored, equality always goes above. *)
choose_linear_never_strict(num, den, strict_ineq, margin_below, margin_above) ==
    FrLe(FrMul(FromInt(num), margin_above), FrMul(FromInt(den), margin_below))

(* Mutant: num and den are exchanged. *)
choose_linear_swapped(num, den, strict_ineq, margin_below, margin_above) ==
    \/ FrLt(FrMul(FromInt(den), margin_above), FrMul(FromInt(num), margin_below))
    \/ /\ FrEq(FrMul(FromInt(num), margin_below), FrMul(FromInt(den), margin_above))
       /\ ~strict_ineq

choose_linear(num, den, strict_ineq, margin_below, margin_above) ==
    IF FrLt(FrMul(FromInt(num), margin_above), FrMul(FromInt(den), margin_below))
    THEN TRUE
    ELSE IF FrEq(FrMul(FromInt(den), margin_below), FrMul(FromInt(num), margin_above))
            /\ ~strict_ineq
         THEN TRUE
         ELSE FALSE

choose_quadratic(num, den, strict_ineq, margin_below, margin_above) ==
    LET margin_above_2 == FrMul(margin_above, margin_above)
    IN  IF FrLt(FrMul(FromInt(num), margin_above_2), FrMul(FromInt(den), margin_below))
        THEN TRUE
        ELSE IF FrEq(FrMul(FromInt(den), margin_below), FrMul(FromInt(num), margin_above_2))
                /\ ~strict_ineq
             THEN TRUE
             ELSE FALSE

(* Mutant: the margins are handed over in the other order. *)
choice_fn_margins_exchanged(a, margin_below, margin_above) ==
    IF a.kind = "MarginAlgorithmLinear"
    THEN choose_linear(a.num, a.den, a.strict_ineq, margin_above, margin_below)
    ELSE choose_quadratic(a.num, a.den, a.strict_ineq, margin_above, margin_below)

(* self.choice_fn of the algorithm object a. *)
choice_fn(a, margin_below, margin_above) ==
    IF a.kind = "MarginAlgorithmLinear"
    THEN choose_linear(a.num, a.den, a.strict_ineq, margin_below, margin_above)
    ELSE choose_quadratic(a.num, a.den, a.strict_ineq, margin_below, margin_above)

(* Mutant: the list starts as zeros instead of None. *)
margin_ret_zeros(goal_, num_medals, num_contestants) ==
    [i \in 1..Len(goal_) |->
        IF i = Len(goal_) THEN num_contestants
        ELSE IF i = Len(goal_) - 1 THEN num_medals
        ELSE 0]

(* Mutant: ret[-1] and ret[-2] are exchanged. *)
margin_ret_swapped(goal_, num_medals, num_contestants) ==
    [i \in 1..Len(goal_) |->
        IF i = Len(goal_) THEN num_medals
        ELSE IF i = Len(goal_) - 1 THEN num_contestants
        ELSE None]

(* ret = [None for i in goal]; ret[-2] = num_medals; ret[-1] = num_contestants *)
margin_ret(goal_, num_medals, num_contestants) ==
    [i \in 1..Len(goal_) |->
        IF i = Len(goal_) THEN num_contestants
        ELSE IF i = Len(goal_) - 1 THEN num_medals
        ELSE None]

margin_compute_boundaries(a, stats, goal_, known) ==
    IF Len(known) # Len(goal_)
    THEN Raised(ErrInconsistency)
    ELSE LET num_contestants == stats[1]
             goal_sum == Sum(goal_)
             goal_sum_medals == goal_sum - goal_[Len(goal_)]
             goal_medal_frac == Fraction(goal_sum_medals, goal_sum)
             goal_medal_ideal == FrMul(FromInt(num_contestants), goal_medal_frac)
             alts == get_cum_alternatives(goal_medal_ideal, stats)
         IN  IF alts.err # ""
             THEN alts
             ELSE LET num_below == alts.val[1]
                      num_above == alts.val[2]
                      margin_below == FrSub(goal_medal_ideal, FromInt(num_below))
                      margin_above == FrSub(FromInt(num_above), goal_medal_ideal)
                      num_medals == IF choice_fn(a, margin_below, margin_above)
                                    THEN num_above ELSE num_below
                  IN  Returned(margin_ret(goal_, num_medals, num_contestants))

(***************************************************************************)
(* MedalAlgorithmIndependent, MedalAlgorithmLowestFirst                    *)
(***************************************************************************)
(* Mutant: equality of the margins goes below. *)
nearest_alternative_below(goal_ideal, num_below, num_above) ==
    LET margin_below == FrSub(goal_ideal, FromInt(num_below))
        margin_above == FrSub(FromInt(num_above), goal_ideal)
    IN  IF FrLt(margin_above, margin_below) THEN num_above ELSE num_below

(* if margin_below >= margin_above: num_above, else: num_below *)
nearest_alternative(goal_ideal, num_below, num_above) ==
    LET margin_below == FrSub(goal_ideal, FromInt(num_below))
        margin_above == FrSub(FromInt(num_above), goal_ideal)
    IN  IF FrLe(margin_above, margin_below) THEN num_above ELSE num_below

RECURSIVE independent_loop(_, _, _, _, _)

(* Mutant: the ideal is a fraction of goal_sum instead of goal_sum_medals. *)
RECURSIVE independent_loop_goal_sum(_, _, _, _, _)
independent_loop_goal_sum(stats, goal_, known, i, r) ==
    LET num_medals == known[Len(known) - 1]
        goal_sum == Sum(goal_)
        num_to_find == Len(goal_) - 2
    IN  IF i >= num_to_find
        THEN Returned(r)
        ELSE IF num_medals = None
        THEN Raised(ErrType)
        ELSE LET goal_sum_high == SumPrefix(goal_, i + 1)
                 goal_frac == Fraction(goal_sum_high, goal_sum)
                 goal_ideal == FrMul(FromInt(num_medals), goal_frac)
                 alts == get_cum_alternatives(goal_ideal, stats)
             IN  IF alts.err # ""
                 THEN alts
                 ELSE independent_loop_goal_sum(stats, goal_, known, i + 1,
                        [r EXCEPT ![i + 1] =
                            nearest_alternative(goal_ideal, alts.val[1], alts.val[2])])

(* Mutant: the ideal is taken from the weight of medal i alone, not from   *)
(* the weights of medal i and above.                                       *)
RECURSIVE independent_loop_single_weight(_, _, _, _, _)
independent_loop_single_weight(stats, goal_, known, i, r) ==
    LET num_medals == known[Len(known) - 1]
        goal_sum == Sum(goal_)
        goal_sum_medals == goal_sum - goal_[Len(goal_)]
        num_to_find == Len(goal_) - 2
    IN  IF i >= num_to_find
        THEN Returned(r)
        ELSE IF num_medals = None
        THEN Raised(ErrType)
        ELSE LET goal_sum_high == goal_[i + 1]
                 goal_frac == Fraction(goal_sum_high, goal_sum_medals)
                 goal_ideal == FrMul(FromInt(num_medals), goal_frac)
                 alts == get_cum_alternatives(goal_ideal, stats)
             IN  IF alts.err # ""
                 THEN alts
                 ELSE independent_loop_single_weight(stats, goal_, known, i + 1,
                        [r EXCEPT ![i + 1] =
                            nearest_alternative(goal_ideal, alts.val[1], alts.val[2])])

(* Mutant: a boundary that is already known is kept. *)
RECURSIVE independent_loop_keep_known(_, _, _, _, _)
independent_loop_keep_known(stats, goal_, known, i, r) ==
    LET num_medals == known[Len(known) - 1]
        goal_sum == Sum(goal_)
        goal_sum_medals == goal_sum - goal_[Len(goal_)]
        num_to_find == Len(goal_) - 2
    IN  IF i >= num_to_find
        THEN Returned(r)
        ELSE IF num_medals = None
        THEN Raised(ErrType)
        ELSE LET goal_sum_high == SumPrefix(goal_, i + 1)
                 goal_frac == Fraction(goal_sum_high, goal_sum_medals)
                 goal_ideal == FrMul(FromInt(num_medals), goal_frac)
                 alts == get_cum_alternatives(goal_ideal, stats)
             IN  IF alts.err # ""
                 THEN alts
                 ELSE independent_loop_keep_known(stats, goal_, known, i + 1,
                        [r EXCEPT ![i + 1] =
                            IF known[i + 1] # None
                            THEN known[i + 1]
                            ELSE nearest_alternative(goal_ideal, alts.val[1], alts.val[2])])

(* The loop of MedalAlgorithmIndependent at Python index i, ret as built so far. *)
independent_loop(stats, goal_, known, i, r) ==
    LET num_medals == known[Len(known) - 1]
        goal_sum == Sum(goal_)
        goal_sum_medals == goal_sum - goal_[Len(goal_)]
        num_to_find == Len(goal_) - 2
    IN  IF i >= num_to_find
        THEN Returned(r)
        ELSE IF num_medals = None
        THEN Raised(ErrType)
        ELSE LET goal_sum_high == SumPrefix(goal_, i + 1)
                 goal_frac == Fraction(goal_sum_high, goal_sum_medals)
                 goal_ideal == FrMul(FromInt(num_medals), goal_frac)
                 alts == get_cum_alternatives(goal_ideal, stats)
             IN  IF alts.err # ""
                 THEN alts
                 ELSE independent_loop(stats, goal_, known, i + 1,
                        [r EXCEPT ![i + 1] =
                            nearest_alternative(goal_ideal, alts.val[1], alts.val[2])])

(* Mutant: the lengths are not compared. *)
independent_compute_boundaries_unchecked(stats, goal_, known) ==
    independent_loop(stats, goal_, known, 0, known)

independent_compute_boundaries(stats, goal_, known) ==
    IF Len(known) # Len(goal_)
    THEN Raised(ErrInconsistency)
    ELSE independent_loop(stats, goal_, known, 0, known)

(* The loop of MedalAlgorithmLowestFirst at Python index i (descending). *)
RECURSIVE lowest_first_loop(_, _, _, _)
lowest_first_loop(stats, goal_, i, r) ==
    IF i < 0
    THEN Returned(r)
    ELSE IF r[i + 2] = None
    THEN Raised(ErrType)
    ELSE LET goal_sum_num == SumPrefix(goal_, i + 1)
             goal_sum_den == SumPrefix(goal_, i + 2)
             goal_frac == Fraction(goal_sum_num, goal_sum_den)
             goal_ideal == FrMul(FromInt(r[i + 2]), goal_frac)
             alts == get_cum_alternatives(goal_ideal, stats)
         IN  IF alts.err # ""
             THEN alts
             ELSE lowest_first_loop(stats, goal_, i - 1,
                    [r EXCEPT ![i + 1] =
                        nearest_alternative(goal_ideal, alts.val[1], alts.val[2])])

lowest_first_compute_boundaries(stats, goal_, known) ==
    IF Len(known) # Len(goal_)
    THEN Raised(ErrInconsistency)
    ELSE lowest_first_loop(stats, goal_, (Len(goal_) - 2) - 1, known)

(***************************************************************************)
(* MedalAlgorithmScore, MedalAlgorithmLp, MedalAlgorithmRatio              *)
(***************************************************************************)
(* Number of contestants with medal i alone (Python index i). *)
num_this_medal(bounds, i) ==
    IF i > 0 THEN bounds[i + 1] - bounds[i] ELSE bounds[i + 1]

(* The loop of score_lp from Python index i on. *)
RECURSIVE score_lp_loop(_, _, _, _, _)
score_lp_loop(p, scale, goal_, bounds, i) ==
    LET num_medal_types == Len(goal_) - 1
        goal_total == SumPrefix(goal_, num_medal_types)
    IN  IF i >= num_medal_types
        THEN FromInt(0)
        ELSE LET num  == IF scale
                         THEN FrMul(FromInt(num_this_medal(bounds, i)),
                                    Fraction(goal_total, goal_[i + 1]))
                         ELSE FromInt(num_this_medal(bounds, i))
                 ideal_this_medal ==
                         IF scale
                         THEN FromInt(bounds[Len(bounds) - 1])
                         ELSE FrMul(FromInt(bounds[Len(bounds) - 1]),
                                    Fraction(goal_[i + 1], goal_total))
                 diff == FrAbs(FrSub(num, ideal_this_medal))
             IN  FrAdd(FrPow(diff, p), score_lp_loop(p, scale, goal_, bounds, i + 1))

score_lp(p, scale, goal_, bounds) == score_lp_loop(p, scale, goal_, bounds, 0)

(* What stands for the ZeroDivisionError of fractions.Fraction(n, 0): no    *)
(* fraction has the denominator 0.                                         *)
DivisionByZero == <<0, 0>>

(* The sum of score_ratio over the ordered pairs (i, j), i # j, from pair k on, *)
(* the pairs numbered k = i * num_medal_types + j.                              *)
RECURSIVE score_ratio_sum(_, _, _)
score_ratio_sum(goal_, bounds, k) ==
    LET num_medal_types == Len(goal_) - 1
        i == k \div num_medal_types
        j == k % num_medal_types
    IN  IF k >= num_medal_types * num_medal_types
        THEN FromInt(0)
        ELSE IF i = j
        THEN score_ratio_sum(goal_, bounds, k + 1)
        ELSE IF num_this_medal(bounds, j) = 0
        THEN DivisionByZero
        ELSE LET ratio == Fraction(num_this_medal(bounds, i), num_this_medal(bounds, j))
                 goal_ratio == Fraction(goal_[i + 1], goal_[j + 1])
                 rest == score_ratio_sum(goal_, bounds, k + 1)
             IN  IF rest = DivisionByZero
                 THEN DivisionByZero
                 ELSE FrAdd(FrDiv(ratio, goal_ratio), rest)

(* Mutant: no early return for a medal nobody gets. *)
score_ratio_no_zero_check(goal_, bounds) ==
    <<0, score_ratio_sum(goal_, bounds, 0)>>

(* The pair (1, 0) or (0, score); the second component is kept a fraction. *)
score_ratio(goal_, bounds) ==
    IF \E i \in 0..(Len(goal_) - 2) : num_this_medal(bounds, i) = 0
    THEN <<1, FromInt(0)>>
    ELSE <<0, score_ratio_sum(goal_, bounds, 0)>>

(* self.score_fn of the algorithm object a. *)
score_fn(a, goal_, bounds) ==
    IF a.kind = "MedalAlgorithmLp"
    THEN score_lp(a.p, a.scale, goal_, bounds)
    ELSE score_ratio(goal_, bounds)

(* new_score <= best_score: fractions for Lp, Python tuple order for Ratio. *)
score_le(a, new_score, best_score) ==
    IF a.kind = "MedalAlgorithmLp"
    THEN FrLe(new_score, best_score)
    ELSE \/ new_score[1] < best_score[1]
         \/ new_score[1] = best_score[1] /\ FrLe(new_score[2], best_score[2])

(* Mutant: only a strictly smaller score replaces the best one. *)
replaces_best_strict(a, new_score, best_score) ==
    ~score_le(a, best_score, new_score)

(* elif new_score <= best_score: the later candidate replaces the best one. *)
replaces_best(a, new_score, best_score) == score_le(a, new_score, best_score)

NoBest == [have_best_score |-> FALSE, best_score |-> <<>>, best_bound |-> <<>>]

(* _search_by_score at position pos, and its loop at Python index i-1 with the *)
(* best candidate of the later indices; i = 0 is the end of the loop.          *)
RECURSIVE search_by_score(_, _, _, _, _)
RECURSIVE search_loop(_, _, _, _, _, _, _)

(* Mutant: without a candidate, (best_score, best_bound) is returned as it *)
(* is instead of an error.                                                 *)
RECURSIVE search_loop_no_raise(_, _, _, _, _, _, _)
search_loop_no_raise(a, stats, goal_, known, pos, i, best) ==
    IF i = 0 \/ stats[i] > known[pos + 2]
    THEN Returned(<<best.best_score, best.best_bound>>)
    ELSE LET rec_bound == [known EXCEPT ![pos + 1] = stats[i]]
             new == IF pos = 0
                    THEN Returned(<<score_fn(a, goal_, rec_bound), rec_bound>>)
                    ELSE search_by_score(a, stats, goal_, rec_bound, pos - 1)
         IN  IF new.err # ""
             THEN new
             ELSE search_loop_no_raise(a, stats, goal_, known, pos, i - 1,
                    IF ~best.have_best_score
                       \/ replaces_best(a, new.val[1], best.best_score)
                    THEN [have_best_score |-> TRUE, best_score |-> new.val[1],
                          best_bound |-> new.val[2]]
                    ELSE best)

search_loop(a, stats, goal_, known, pos, i, best) ==
    IF i = 0 \/ stats[i] > known[pos + 2]
    THEN IF ~best.have_best_score
         THEN Raised(ErrNoAdmissible)
         ELSE Returned(<<best.best_score, best.best_bound>>)
    ELSE LET rec_bound == [known EXCEPT ![pos + 1] = stats[i]]
             new == IF pos = 0
                    THEN Returned(<<score_fn(a, goal_, rec_bound), rec_bound>>)
                    ELSE search_by_score(a, stats, goal_, rec_bound, pos - 1)
         IN  IF new.err # ""
             THEN new
             ELSE search_loop(a, stats, goal_, known, pos, i - 1,
                    IF ~best.have_best_score
                       \/ replaces_best(a, new.val[1], best.best_score)
                    THEN [have_best_score |-> TRUE, best_score |-> new.val[1],
                          best_bound |-> new.val[2]]
                    ELSE best)

(* Mutant: the loop starts one index early and never tries the last count. *)
search_by_score_skip_last(a, stats, goal_, known, pos) ==
    search_loop(a, stats, goal_, known, pos, Len(stats) - 1, NoBest)

search_by_score(a, stats, goal_, known, pos) ==
    search_loop(a, stats, goal_, known, pos, Len(stats), NoBest)

(* cum_stats[i] > None is a TypeError (Python 3). *)
score_compute_boundaries(a, stats, goal_, known) ==
    IF Len(known) # Len(goal_)
    THEN Raised(ErrInconsistency)
    ELSE IF known[Len(known) - 1] = None
    THEN Raised(ErrType)
    ELSE LET found == search_by_score(a, stats, goal_, known, Len(known) - 3)
         IN  IF found.err # "" THEN found ELSE Returned(found.val[2])

(***************************************************************************)
(* The inputs: what the callers hand to the algorithms.                    *)
(***************************************************************************)
IsNonIncreasing(s) == \A i \in 1..(Len(s) - 1) : s[i] >= s[i + 1]

(* Results.set_cum_stats: one entry per score 0..max_total, each the number *)
(* of contestants with that score or more.                                  *)
CumStats ==
    UNION {{s \in [1..n -> 0..MaxCount] : IsNonIncreasing(s)} : n \in 1..MaxLen}

(* Goals: positive weights, two or three medal types and then the weight of  *)
(* the contestants without a medal; <<1, 2, 3, 6>> is the goal of the IMO.    *)
Goals ==
    { <<1, 1, 1>>, <<1, 2, 3>>, <<2, 1, 1>>,
      <<1, 2, 3, 6>>, <<1, 1, 1, 1>>, <<2, 1, 1, 2>> }

(* known_bound of length n: the number of medals (or None) at [-2], the other *)
(* entries all None or all already set.                                       *)
KnownBounds(n) ==
    {[i \in 1..n |-> IF i = n - 1 THEN m ELSE o] :
        m \in {None} \cup 0..MaxCount, o \in {None, MaxCount}}

(* known_bound of another length than the goal of length n: one entry short *)
(* and nothing known, or one entry long and everything known.               *)
MismatchedBounds(n) ==
    {[i \in 1..(n - 1) |-> None], [i \in 1..(n + 1) |-> MaxCount]}

(* (num, den) of the margin algorithms. *)
MarginParams == { <<1, 0>>, <<1, 1>>, <<1, 2>>, <<2, 1>> }

(* Ideal values handed to get_cum_alternatives: halves and thirds up to above *)
(* every count.                                                               *)
Ideals == {Fraction(n, d) : n \in 0..(3 * (MaxCount + 1)), d \in {1, 2, 3}}

(* The algorithm objects. *)
NoAlgorithm ==
    [kind |-> "", num |-> 0, den |-> 0, strict_ineq |-> FALSE, p |-> 0, scale |-> FALSE]

MarginObject(kind, num, den, strict_ineq) ==
    [NoAlgorithm EXCEPT !.kind = kind, !.num = num, !.den = den,
                        !.strict_ineq = strict_ineq]

LpObject(p, scale) ==
    [NoAlgorithm EXCEPT !.kind = "MedalAlgorithmLp", !.p = p, !.scale = scale]

Object(kind) == [NoAlgorithm EXCEPT !.kind = kind]

Init ==
    /\ cum_stats \in CumStats
    /\ goal \in Goals
    /\ known_bound \in KnownBounds(Len(goal)) \cup MismatchedBounds(Len(goal))
    /\ alg = NoAlgorithm
    /\ ret = Returned(<<>>)

(***************************************************************************)
(* The calls: alg.compute_boundaries(cum_stats, goal, known_bound).        *)
(***************************************************************************)
Call(a, result) ==
    /\ alg = NoAlgorithm
    /\ alg' = a
    /\ ret' = result
    /\ UNCHANGED <<cum_stats, goal, known_bound>>

MarginAlgorithmLinear ==
    \E nd \in MarginParams, strict_ineq \in BOOLEAN :
        LET a == MarginObject("MarginAlgorithmLinear", nd[1], nd[2], strict_ineq)
        IN  Call(a, margin_compute_boundaries(a, cum_stats, goal, known_bound))

MarginAlgorithmQuadratic ==
    \E nd \in MarginParams, strict_ineq \in BOOLEAN :
        LET a == MarginObject("MarginAlgorithmQuadratic", nd[1], nd[2], strict_ineq)
        IN  Call(a, margin_compute_boundaries(a, cum_stats, goal, known_bound))

MedalAlgorithmIndependent ==
    Call(Object("MedalAlgorithmIndependent"),
         independent_compute_boundaries(cum_stats, goal, known_bound))

MedalAlgorithmLowestFirst ==
    Call(Object("MedalAlgorithmLowestFirst"),
         lowest_first_compute_boundaries(cum_stats, goal, known_bound))

MedalAlgorithmLp ==
    \E p \in {1, 2}, scale \in BOOLEAN :
        LET a == LpObject(p, scale)
        IN  Call(a, score_compute_boundaries(a, cum_stats, goal, known_bound))

MedalAlgorithmRatio ==
    LET a == Object("MedalAlgorithmRatio")
    IN  Call(a, score_compute_boundaries(a, cum_stats, goal, known_bound))

Next ==
    \/ MarginAlgorithmLinear
    \/ MarginAlgorithmQuadratic
    \/ MedalAlgorithmIndependent
    \/ MedalAlgorithmLowestFirst
    \/ MedalAlgorithmLp
    \/ MedalAlgorithmRatio

Spec == Init /\ [][Next]_vars

(***************************************************************************)
(* Direct calls of get_cum_alternatives(ideal, cum_stats), as made by      *)
(* gen_bronze_table.                                                       *)
(***************************************************************************)
InitBracket ==
    /\ cum_stats \in CumStats \cup {<<>>}
    /\ goal = <<>>
    /\ known_bound = <<>>
    /\ alg = NoAlgorithm
    /\ ret = Returned(<<>>)

GetCumAlternatives ==
    \E ideal \in Ideals :
        Call([NoAlgorithm EXCEPT !.kind = "get_cum_alternatives",
                                 !.num = ideal[1], !.den = ideal[2]],
             get_cum_alternatives(ideal, cum_stats))

NextBracket == GetCumAlternatives

SpecBracket == InitBracket /\ [][NextBracket]_vars

(***************************************************************************)
(* Vocabulary of the properties.                                           *)
(***************************************************************************)
Values(s) == {s[i] : i \in 1..Len(s)}

MarginKinds == {"MarginAlgorithmLinear", "MarginAlgorithmQuadratic"}

ScoreKinds == {"MedalAlgorithmLp", "MedalAlgorithmRatio"}

TierKinds == {"MedalAlgorithmIndependent", "MedalAlgorithmLowestFirst"} \cup ScoreKinds

(* compute_boundaries was called and returned a vector. *)
Succeeded == alg.kind \in MarginKinds \cup TierKinds /\ ret.err = ""

(* TLA+ indices of position T-1 (total awarded) and of position T (everyone). *)
PosMedals == Len(goal) - 1

PosAll == Len(goal)

(* The positions the algorithm of the call computes. *)
ResolvedPositions ==
    IF alg.kind \in MarginKinds THEN {PosMedals, PosAll} ELSE 1..(Len(goal) - 2)

(* The ideal number of medals of the margin algorithms is IdealNum / IdealDen. *)
IdealNum == cum_stats[1] * (Sum(goal) - goal[Len(goal)])

IdealDen == Sum(goal)

MarginBracket == get_cum_alternatives(Fraction(IdealNum, IdealDen), cum_stats).val

(***************************************************************************)
(* C1: for a non-empty non-increasing cum_stats and an ideal r with        *)
(* min <= r <= max, get_cum_alternatives returns (b, a), both elements of  *)
(* cum_stats, b <= r <= a, b the largest element <= r and a the smallest   *)
(* element >= r.                                                           *)
(***************************************************************************)
IdealInRange ==
    /\ \E x \in Values(cum_stats) : x * alg.den <= alg.num
    /\ \E x \in Values(cum_stats) : x * alg.den >= alg.num

C1_BracketCorrect ==
    (alg.kind = "get_cum_alternatives" /\ IdealInRange) =>
        /\ ret.err = ""
        /\ LET b == ret.val[1]
               a == ret.val[2]
           IN  /\ b \in Values(cum_stats)
               /\ a \in Values(cum_stats)
               /\ b * alg.den <= alg.num
               /\ alg.num <= a * alg.den
               /\ \A x \in Values(cum_stats) :
                    /\ x * alg.den <= alg.num => x <= b
                    /\ x * alg.den >= alg.num => a <= x

(* A fractional ideal strictly between two counts, and another count below. *)
C1_Witness ==
    /\ alg.kind = "get_cum_alternatives"
    /\ IdealInRange
    /\ alg.den > 1
    /\ ret.err = ""
    /\ 0 < ret.val[1]
    /\ ret.val[1] < ret.val[2]
    /\ Cardinality(Values(cum_stats)) = 3

(***************************************************************************)
(* C2 as amended: after a successful compute_boundaries every position the *)
(* algorithm computed holds a value that occurs in cum_stats, or 0 (the    *)
(* lower alternative when no count of cum_stats is at most the ideal).     *)
(***************************************************************************)
C2_ResolvedAchievableOrZero ==
    Succeeded =>
        \A i \in ResolvedPositions : ret.val[i] \in Values(cum_stats) \cup {0}

(* C2 as stated: every computed position holds a value occurring in cum_stats. *)
C2_ResolvedInCumStats ==
    Succeeded => \A i \in ResolvedPositions : ret.val[i] \in Values(cum_stats)

(* A computed position is 0 although every score is reached by somebody. *)
C2_Witness ==
    /\ Succeeded
    /\ \E i \in ResolvedPositions : ret.val[i] = 0
    /\ 0 \notin Values(cum_stats)
    /\ \E i \in ResolvedPositions : ret.val[i] \in Values(cum_stats)

(***************************************************************************)
(* C3 as amended: the margin algorithms return position T-1 as one of the  *)
(* two alternatives around the ideal, position T as the number of          *)
(* contestants, and every other position as None, whatever known_bound     *)
(* holds there.                                                            *)
(***************************************************************************)
C3_MarginOthersNone ==
    (Succeeded /\ alg.kind \in MarginKinds) =>
        /\ ret.val[PosMedals] \in {MarginBracket[1], MarginBracket[2]}
        /\ ret.val[PosAll] = cum_stats[1]
        /\ \A i \in 1..(Len(goal) - 2) : ret.val[i] = None

(* C3 as stated: the other positions are those of known_bound. *)
C3_MarginOthersCopied ==
    (Succeeded /\ alg.kind \in MarginKinds) =>
        /\ ret.val[PosMedals] \in {MarginBracket[1], MarginBracket[2]}
        /\ ret.val[PosAll] = cum_stats[1]
        /\ \A i \in 1..(Len(goal) - 2) : ret.val[i] = known_bound[i]

(* A margin call that was given boundaries already set. *)
C3_Witness ==
    /\ Succeeded
    /\ alg.kind \in MarginKinds
    /\ \A i \in 1..(Len(goal) - 2) : known_bound[i] # None
    /\ MarginBracket[1] \in Values(cum_stats)
    /\ MarginBracket[1] < MarginBracket[2]

(***************************************************************************)
(* C4 as amended: the margin algorithms return the number of contestants   *)
(* cum_stats[0] at position T whatever known_bound holds there; the other  *)
(* algorithms return known_bound's position T as given, None included.     *)
(***************************************************************************)
C4_LastPosition ==
    Succeeded =>
        IF alg.kind \in MarginKinds
        THEN ret.val[PosAll] = cum_stats[1]
        ELSE ret.val[PosAll] = known_bound[PosAll]

(* C4 as stated: every algorithm returns cum_stats[0] at position T. *)
C4_LastIsTotal == Succeeded => ret.val[PosAll] = cum_stats[1]

(* A call as made by gen_gs_alg_table: position T given as None to an       *)
(* algorithm that finds the boundaries between the medals.                 *)
C4_Witness ==
    /\ Succeeded
    /\ alg.kind \in TierKinds
    /\ known_bound[PosAll] = None
    /\ cum_stats[1] > 0
    /\ \A i \in 1..(Len(goal) - 2) : ret.val[i] > 0

(***************************************************************************)
(* C5: MarginAlgorithmLinear(num, den, strict) goes to the alternative     *)
(* above the ideal when den * margin_below > num * margin_above, or when   *)
(* the two are equal and strict is false, and to the one below otherwise.  *)
(* The margins are (IdealNum - below * IdealDen) / IdealDen and            *)
(* (above * IdealDen - IdealNum) / IdealDen, compared here as integers.    *)
(***************************************************************************)
LinearLhs == alg.den * (IdealNum - MarginBracket[1] * IdealDen)

LinearRhs == alg.num * (MarginBracket[2] * IdealDen - IdealNum)

C5_LinearChoice ==
    (Succeeded /\ alg.kind = "MarginAlgorithmLinear") =>
        ret.val[PosMedals] =
            IF LinearLhs > LinearRhs \/ (LinearLhs = LinearRhs /\ ~alg.strict_ineq)
            THEN MarginBracket[2]
            ELSE MarginBracket[1]

(* An exact tie between two different alternatives. *)
C5_Witness ==
    /\ Succeeded
    /\ alg.kind = "MarginAlgorithmLinear"
    /\ MarginBracket[1] \in Values(cum_stats)
    /\ MarginBracket[1] < MarginBracket[2]
    /\ LinearLhs = LinearRhs
    /\ alg.den > 0

(***************************************************************************)
(* C6 as amended: for the same cum_stats, goal and strict flag and         *)
(* num1/den1 <= num2/den2 (den1, den2 > 0), MarginAlgorithmLinear(num2,    *)
(* den2, strict) never returns a larger number of medals than              *)
(* MarginAlgorithmLinear(num1, den1, strict).                              *)
(***************************************************************************)
(* What MarginAlgorithmLinear(nd[1], nd[2], alg.strict_ineq) returns here. *)
LinearWith(nd) ==
    margin_compute_boundaries(
        MarginObject("MarginAlgorithmLinear", nd[1], nd[2], alg.strict_ineq),
        cum_stats, goal, known_bound)

(* The parameters with a ratio at least that of the call made. *)
LargerParams ==
    {nd \in MarginParams : nd[2] > 0 /\ alg.num * nd[2] <= nd[1] * alg.den}

C6_LargerRatioNotMore ==
    (Succeeded /\ alg.kind = "MarginAlgorithmLinear" /\ alg.den > 0) =>
        \A nd \in LargerParams :
            /\ LinearWith(nd).err = ""
            /\ LinearWith(nd).val[PosMedals] <= ret.val[PosMedals]

(* C6 as stated: the larger ratio never gives fewer medals. *)
C6_LargerRatioNotFewer ==
    (Succeeded /\ alg.kind = "MarginAlgorithmLinear" /\ alg.den > 0) =>
        \A nd \in LargerParams :
            /\ LinearWith(nd).err = ""
            /\ LinearWith(nd).val[PosMedals] >= ret.val[PosMedals]

(* A larger ratio that gives strictly fewer medals. *)
C6_Witness ==
    /\ Succeeded
    /\ alg.kind = "MarginAlgorithmLinear"
    /\ alg.den > 0
    /\ MarginBracket[1] \in Values(cum_stats)
    /\ \E nd \in LargerParams : LinearWith(nd).val[PosMedals] < ret.val[PosMedals]

(***************************************************************************)
(* The vectors the score search may return: known_bound at positions T-1   *)
(* and T, and below them counts of cum_stats that do not decrease up to    *)
(* known_bound[T-1].                                                       *)
(***************************************************************************)
AdmissibleVectors ==
    LET n == Len(goal) - 2
    IN  {v \in {[i \in 1..Len(goal) |-> IF i <= n THEN f[i] ELSE known_bound[i]] :
                    f \in [1..n -> Values(cum_stats)]} :
            \A i \in 1..n : v[i] <= v[i + 1]}

ScoreOf(v) == score_fn(alg, goal, v)

(* The score of v is at most / equal to / above that of w. *)
ScoreAtMost(v, w) == score_le(alg, ScoreOf(v), ScoreOf(w))

ScoreEqual(v, w) == ScoreAtMost(v, w) /\ ScoreAtMost(w, v)

ScoreAbove(v, w) == ~ScoreAtMost(v, w)

(***************************************************************************)
(* C7: a successful MedalAlgorithmScore call returns an admissible vector, *)
(* and no admissible vector has a strictly smaller score under the metric  *)
(* of the algorithm (Lp(p, scale) or Ratio).                               *)
(***************************************************************************)
C7_ScoreMinimal ==
    (Succeeded /\ alg.kind \in ScoreKinds) =>
        /\ ret.val \in AdmissibleVectors
        /\ \A v \in AdmissibleVectors : ScoreAtMost(ret.val, v)

(* Three medal types, worse vectors on both sides of the one returned. *)
C7_Witness ==
    /\ Succeeded
    /\ alg.kind \in ScoreKinds
    /\ Len(goal) = 4
    /\ ret.val[1] < ret.val[2]
    /\ \E v \in AdmissibleVectors : v[2] < ret.val[2] /\ ScoreAbove(v, ret.val)
    /\ \E v \in AdmissibleVectors : v[2] > ret.val[2] /\ ScoreAbove(v, ret.val)

(***************************************************************************)
(* C8: among the admissible vectors of minimal score the search returns    *)
(* the greatest one, comparing position T-2 first (the larger count wins), *)
(* then position T-3, down to position 0.                                  *)
(***************************************************************************)
(* v is w, or is smaller than w at the outermost searched position where   *)
(* they differ.                                                            *)
OuterFirstAtMost(v, w) ==
    \/ \A i \in 1..(Len(goal) - 2) : v[i] = w[i]
    \/ \E i \in 1..(Len(goal) - 2) :
          /\ v[i] < w[i]
          /\ \A j \in (i + 1)..(Len(goal) - 2) : v[j] = w[j]

C8_TieBreakOuterFirst ==
    (Succeeded /\ alg.kind \in ScoreKinds) =>
        \A v \in AdmissibleVectors :
            ScoreEqual(v, ret.val) => OuterFirstAtMost(v, ret.val)

(* Lp(1, false) with a second vector of the same minimal score and a       *)
(* smaller count at position T-2, and a third one equal at T-2 and smaller *)
(* further in.                                                             *)
C8_Witness ==
    /\ Succeeded
    /\ alg = LpObject(1, FALSE)
    /\ Len(goal) = 4
    /\ \E v \in AdmissibleVectors : ScoreEqual(v, ret.val) /\ v[2] < ret.val[2]
    /\ \E v \in AdmissibleVectors :
          ScoreEqual(v, ret.val) /\ v[2] = ret.val[2] /\ v[1] < ret.val[1]

(***************************************************************************)
(* C9: MedalAlgorithmIndependent returns positions T-1 and T as given and, *)
(* at each position i in 0..T-2, the alternative around                    *)
(* known_bound[T-1] * sum(goal[0..i]) / sum(goal[0..T-1]) with the smaller *)
(* margin, the one above when the margins are equal.                       *)
(***************************************************************************)
(* The alternative chosen around num / den: margins compared as integers,  *)
(* margin_below = (num - below * den) / den, margin_above likewise.        *)
Nearest(num, den) ==
    LET alts == get_cum_alternatives(Fraction(num, den), cum_stats).val
        below == alts[1]
        above == alts[2]
        margin_below == num - below * den
        margin_above == above * den - num
    IN  IF margin_above < margin_below THEN above
        ELSE IF margin_below < margin_above THEN below
        ELSE above

(* The two margins around num / den are equal and not zero. *)
IsTie(num, den) ==
    LET alts == get_cum_alternatives(Fraction(num, den), cum_stats).val
    IN  alts[1] < alts[2] /\ num - alts[1] * den = alts[2] * den - num

(* Numerator and denominator of the ideal of MedalAlgorithmIndependent at  *)
(* TLA+ index i (Python index i - 1).                                      *)
IndependentNum(i) == known_bound[PosMedals] * SumPrefix(goal, i)

IndependentDen == SumPrefix(goal, Len(goal) - 1)

C9_Independent ==
    (Succeeded /\ alg.kind = "MedalAlgorithmIndependent") =>
        /\ ret.val[PosMedals] = known_bound[PosMedals]
        /\ ret.val[PosAll] = known_bound[PosAll]
        /\ \A i \in 1..(Len(goal) - 2) :
              ret.val[i] = Nearest(IndependentNum(i), IndependentDen)

(* Equal margins at one position, the alternative below chosen at another. *)
C9_Witness ==
    /\ Succeeded
    /\ alg.kind = "MedalAlgorithmIndependent"
    /\ known_bound[PosMedals] \in Values(cum_stats)
    /\ \E i \in 1..(Len(goal) - 2) : IsTie(IndependentNum(i), IndependentDen)
    /\ \E i \in 1..(Len(goal) - 2) :
          LET alts == get_cum_alternatives(
                        Fraction(IndependentNum(i), IndependentDen), cum_stats).val
          IN  alts[1] < alts[2] /\ ret.val[i] = alts[1] /\ alts[1] \in Values(cum_stats)

(***************************************************************************)
(* C10: MedalAlgorithmLowestFirst works from position T-2 down to 0; at    *)
(* position i the ideal is the result at position i+1 times                *)
(* sum(goal[0..i]) / sum(goal[0..i+1]), and the result is the alternative  *)
(* around it with the smaller margin, the one above when they are equal.   *)
(***************************************************************************)
(* Numerator and denominator of the ideal at TLA+ index i, from the result *)
(* at index i + 1.                                                         *)
LowestFirstNum(i) == ret.val[i + 1] * SumPrefix(goal, i)

LowestFirstDen(i) == SumPrefix(goal, i + 1)

C10_LowestFirst ==
    (Succeeded /\ alg.kind = "MedalAlgorithmLowestFirst") =>
        \A i \in 1..(Len(goal) - 2) :
            ret.val[i] = Nearest(LowestFirstNum(i), LowestFirstDen(i))

(* Three medal types, the result at position 1 smaller than the number of  *)
(* medals and not zero, so that the ideal at position 0 is a proportion of  *)
(* it and not of the number of medals; equal margins at position 0.         *)
C10_Witness ==
    /\ Succeeded
    /\ alg.kind = "MedalAlgorithmLowestFirst"
    /\ Len(goal) = 4
    /\ known_bound[PosMedals] \in Values(cum_stats)
    /\ 0 < ret.val[2]
    /\ ret.val[2] < known_bound[PosMedals]
    /\ IsTie(LowestFirstNum(1), LowestFirstDen(1))

(***************************************************************************)
(* Direct calls of the score function of MedalAlgorithmRatio on a vector   *)
(* of boundaries, as _search_by_score makes them at pos == 0.              *)
(***************************************************************************)
ErrZeroDivision == "ZeroDivisionError"

(* Vectors of n boundaries: counts that do not decrease, then the number of *)
(* contestants, which the score functions ignore.                           *)
BoundVectors(n) ==
    {v \in [1..n -> {None} \cup 0..MaxCount] :
        /\ v[n] \in {None, MaxCount}
        /\ \A i \in 1..(n - 1) : v[i] # None
        /\ \A i \in 1..(n - 2) : v[i] <= v[i + 1]}

(* score_ratio(goal, bounds): the pair returned, or the exception of a     *)
(* division by zero.                                                       *)
score_ratio_call(goal_, bounds) ==
    LET score == score_ratio(goal_, bounds)
    IN  IF score[2] = DivisionByZero
        THEN Raised(ErrZeroDivision)
        ELSE Returned(score)

InitScore ==
    /\ cum_stats = <<>>
    /\ goal \in Goals
    /\ known_bound \in BoundVectors(Len(goal))
    /\ alg = NoAlgorithm
    /\ ret = Returned(<<>>)

ScoreRatio ==
    Call(Object("score_ratio"), score_ratio_call(goal, known_bound))

NextScore == ScoreRatio

SpecScore == InitScore /\ [][NextScore]_vars

(***************************************************************************)
(* C11: under the Ratio metric a vector that gives some medal to nobody    *)
(* scores strictly worse (greater) than every vector that gives every      *)
(* medal to somebody, and scoring it divides by no zero: the call returns. *)
(***************************************************************************)
(* Some medal / every medal of the vector v has somebody. *)
HasEmptyTier(v) == \E i \in 0..(Len(goal) - 2) : num_this_medal(v, i) = 0

AllTiersFilled(v) == \A i \in 0..(Len(goal) - 2) : num_this_medal(v, i) >= 1

(* The Ratio score x is strictly greater than y, in Python's tuple order. *)
RatioGreater(x, y) == ~score_le(Object("MedalAlgorithmRatio"), x, y)

C11_ZeroCountDominated ==
    (alg.kind = "score_ratio" /\ HasEmptyTier(known_bound)) =>
        /\ ret.err = ""
        /\ \A v \in BoundVectors(Len(goal)) :
              AllTiersFilled(v) => RatioGreater(ret.val, score_ratio(goal, v))

(* Three medals, the first one given, a later one not, and a vector that   *)
(* gives every medal.                                                      *)
C11_Witness ==
    /\ alg.kind = "score_ratio"
    /\ Len(goal) = 4
    /\ known_bound[1] > 0
    /\ HasEmptyTier(known_bound)
    /\ ret.err = ""
    /\ \E v \in BoundVectors(Len(goal)) : AllTiersFilled(v)


(***************************************************************************)
(* Calling an algorithm again on its own output.                           *)
(***************************************************************************)
(* alg.compute_boundaries(stats, goal_, known) for the algorithm object a. *)
compute_boundaries(a, stats, goal_, known) ==
    IF a.kind \in MarginKinds
    THEN margin_compute_boundaries(a, stats, goal_, known)
    ELSE IF a.kind = "MedalAlgorithmIndependent"
    THEN independent_compute_boundaries(stats, goal_, known)
    ELSE IF a.kind = "MedalAlgorithmLowestFirst"
    THEN lowest_first_compute_boundaries(stats, goal_, known)
    ELSE score_compute_boundaries(a, stats, goal_, known)

(* The result with any of the positions the algorithm assigns set back to None. *)
FedBack ==
    {[i \in 1..Len(goal) |-> IF i \in S THEN None ELSE ret.val[i]] :
        S \in SUBSET ResolvedPositions}

(* After a first call, the same algorithm object is called again with the   *)
(* boundaries it returned.                                                  *)
ReInvoke ==
    /\ Succeeded
    /\ known_bound \in KnownBounds(Len(goal))
    /\ \E k \in FedBack :
          /\ known_bound' = k
          /\ ret' = compute_boundaries(alg, cum_stats, goal, k)
    /\ UNCHANGED <<cum_stats, goal, alg>>

NextAgain == Next \/ ReInvoke

SpecAgain == Init /\ [][NextAgain]_vars

(* C12: an algorithm that succeeded with result R, called again with R's   *)
(* values at the positions it does not compute and R's values or None at   *)
(* the positions it computes, succeeds and returns R again.                *)
C12_Idempotent ==
    [][(Succeeded /\ alg' = alg) => ret' = ret]_vars

(* A tier algorithm after a second call: a boundary that no first call is  *)
(* given is in known_bound, next to one set back to None.                  *)
C12_Witness ==
    /\ Succeeded
    /\ alg.kind \in TierKinds
    /\ Len(goal) = 4
    /\ known_bound[1] = None
    /\ known_bound[2] = ret.val[2]
    /\ known_bound[2] \notin {None, MaxCount}
    /\ 0 < ret.val[1]
    /\ ret.val[1] < ret.val[2]


(* C13: whenever known_bound and goal differ in length, every algorithm     *)
(* fails with the length-mismatch error, whatever cum_stats holds: no       *)
(* vector is returned and no other error is reported in its place.          *)
C13_ShapeMismatch ==
    (alg.kind \in MarginKinds \cup TierKinds /\ Len(known_bound) # Len(goal)) =>
        ret = Raised(ErrInconsistency)

(* A score algorithm called with a known_bound that is too short and holds  *)
(* only None, on which the search would fail with a TypeError.              *)
C13_Witness ==
    /\ alg.kind = "MedalAlgorithmLp"
    /\ Len(known_bound) = Len(goal) - 1
    /\ Len(cum_stats) = MaxLen
    /\ ret = Raised(ErrInconsistency)


(***************************************************************************)
(* get_cum_alternatives called directly and by the algorithms.             *)
(***************************************************************************)
InitRange == Init \/ InitBracket

NextRange ==
    \/ goal # <<>> /\ Next
    \/ goal = <<>> /\ NextBracket

SpecRange == InitRange /\ [][NextRange]_vars

(* num / den is greater than every count of cum_stats. *)
Exceeds(num, den) == \A x \in Values(cum_stats) : x * den < num

(* compute_boundaries was called by one of kinds with lengths that match   *)
(* and the number of medals known.                                         *)
CalledWithMedals(kinds) ==
    /\ alg.kind \in kinds
    /\ Len(known_bound) = Len(goal)
    /\ known_bound[PosMedals] # None

(* C14: get_cum_alternatives fails with the error of an ideal above the    *)
(* number of contestants exactly when no count of cum_stats is at least    *)
(* the ideal (also when cum_stats is empty), and returns a pair otherwise; *)
(* a margin, Independent or LowestFirst computation whose ideal is above   *)
(* every count fails with that error and returns no vector.                *)
C14_OutOfRange ==
    /\ alg.kind = "get_cum_alternatives" =>
          IF Exceeds(alg.num, alg.den)
          THEN ret = Raised(ErrContestants)
          ELSE ret.err = "" /\ Len(ret.val) = 2
    /\ (alg.kind \in MarginKinds /\ Len(known_bound) = Len(goal)
            /\ Exceeds(IdealNum, IdealDen)) =>
          ret = Raised(ErrContestants)
    /\ CalledWithMedals({"MedalAlgorithmIndependent"}) =>
          IF \E i \in 1..(Len(goal) - 2) : Exceeds(IndependentNum(i), IndependentDen)
          THEN ret = Raised(ErrContestants)
          ELSE ret.err = ""
    /\ CalledWithMedals({"MedalAlgorithmLowestFirst"}) =>
          IF Exceeds(known_bound[PosMedals] * SumPrefix(goal, Len(goal) - 2),
                     SumPrefix(goal, Len(goal) - 1))
          THEN ret = Raised(ErrContestants)
          ELSE ret.err = ""

(* MedalAlgorithmIndependent with more medals than contestants: the ideal  *)
(* at position 0 has a bracket, the ideal at position 1 is above every     *)
(* count.                                                                  *)
C14_Witness ==
    /\ CalledWithMedals({"MedalAlgorithmIndependent"})
    /\ Len(goal) = 4
    /\ cum_stats[1] > 0
    /\ ~Exceeds(IndependentNum(1), IndependentDen)
    /\ Exceeds(IndependentNum(2), IndependentDen)
    /\ ret = Raised(ErrContestants)


(* Some count of cum_stats is at most the number of medals given. *)
SomeCountAdmissible ==
    \E x \in Values(cum_stats) : x <= known_bound[PosMedals]

(* C15 as stated: MedalAlgorithmScore.compute_boundaries fails with the    *)
(* error of no admissible boundaries exactly when no count of cum_stats is *)
(* at most known_bound[T-1], and otherwise returns a vector with every     *)
(* position resolved.                                                      *)
C15_FullyResolved ==
    CalledWithMedals(ScoreKinds) =>
        IF SomeCountAdmissible
        THEN /\ ret.err = ""
             /\ \A i \in 1..Len(goal) : ret.val[i] # None
        ELSE ret = Raised(ErrNoAdmissible)

(* C15 as amended: MedalAlgorithmScore.compute_boundaries fails with the   *)
(* error of no admissible boundaries exactly when no count of cum_stats is *)
(* at most known_bound[T-1], and otherwise returns a vector with the       *)
(* positions 0..T-1 resolved, every searched position holding a count of   *)
(* cum_stats that is at most the next position, and position T as it was   *)
(* given.                                                                  *)
C15_NoAdmissible ==
    CalledWithMedals(ScoreKinds) =>
        IF SomeCountAdmissible
        THEN /\ ret.err = ""
             /\ \A i \in 1..(Len(goal) - 2) :
                   /\ ret.val[i] \in Values(cum_stats)
                   /\ ret.val[i] <= ret.val[i + 1]
             /\ ret.val[PosMedals] = known_bound[PosMedals]
             /\ ret.val[PosAll] = known_bound[PosAll]
        ELSE ret = Raised(ErrNoAdmissible)

(* Three medal types, a count of cum_stats below the number of medals and  *)
(* one above it, the number of contestants not given: the search succeeds  *)
(* and the last position is still None.                                    *)
C15_Witness ==
    /\ CalledWithMedals(ScoreKinds)
    /\ Len(goal) = 4
    /\ SomeCountAdmissible
    /\ cum_stats[1] > known_bound[PosMedals]
    /\ known_bound[PosAll] = None
    /\ ret.err = ""
    /\ ret.val[1] > 0
    /\ ret.val[PosAll] = None


(***************************************************************************)
(* The algorithms on one table of cumulative statistics: ten contestants   *)
(* and the goal of the IMO.                                                *)
(***************************************************************************)
ScenarioStats == <<10, 10, 9, 7, 4, 2, 0>>

ScenarioGoal == <<1, 2, 3, 6>>

(* Nothing known, or the number of medals known: one of the counts. *)
ScenarioBounds ==
    {[i \in 1..Len(ScenarioGoal) |-> IF i = Len(ScenarioGoal) - 1 THEN m ELSE None] :
        m \in {None} \cup Values(ScenarioStats)}

InitScenario ==
    /\ cum_stats = ScenarioStats
    /\ goal = ScenarioGoal
    /\ known_bound \in ScenarioBounds
    /\ alg = NoAlgorithm
    /\ ret = Returned(<<>>)

SpecScenario == InitScenario /\ [][Next]_vars

(* C16: on cum_stats = [10, 10, 9, 7, 4, 2, 0], goal = [1, 2, 3, 6] and    *)
(* nothing known, MarginAlgorithmLinear(1, 1, False) has the ideal 5, the  *)
(* alternatives (4, 7), the margins 1 below and 2 above, and returns 4 at  *)
(* index 2 and 10 at index 3.                                              *)
C16_Scenario ==
    (/\ alg = MarginObject("MarginAlgorithmLinear", 1, 1, FALSE)
     /\ known_bound = [i \in 1..Len(goal) |-> None]) =>
        LET ideal == Fraction(IdealNum, IdealDen)
        IN  /\ ideal = FromInt(5)
            /\ MarginBracket = <<4, 7>>
            /\ FrSub(ideal, FromInt(MarginBracket[1])) = FromInt(1)
            /\ FrSub(FromInt(MarginBracket[2]), ideal) = FromInt(2)
            /\ ret.err = ""
            /\ ret.val[PosMedals] = 4
            /\ ret.val[PosAll] = 10

(* MarginAlgorithmLinear(1, 1, False) has returned on the table with       *)
(* nothing known.                                                          *)
C16_Witness ==
    /\ cum_stats = ScenarioStats
    /\ goal = ScenarioGoal
    /\ alg = MarginObject("MarginAlgorithmLinear", 1, 1, FALSE)
    /\ known_bound = <<None, None, None, None>>
    /\ ret.err = ""
    /\ Len(ret.val) = 4


(* C17: when the number of medals given is a count of cum_stats, the vector *)
(* a tier algorithm returns is a chain ret[0] <= ... <= ret[T-2] <=         *)
(* ret[T-1] = known_bound[T-1], and no medal has a negative number of       *)
(* contestants.                                                             *)
C17_NestedCutoffs ==
    (/\ Succeeded
     /\ alg.kind \in TierKinds
     /\ known_bound[PosMedals] \in Values(cum_stats)) =>
        /\ ret.val[PosMedals] = known_bound[PosMedals]
        /\ \A i \in 1..(Len(goal) - 2) : ret.val[i] <= ret.val[i + 1]
        /\ \A i \in 0..(Len(goal) - 2) : num_this_medal(ret.val, i) >= 0

(* Three medal types and contestants with each of them. *)
C17_Witness ==
    /\ Succeeded
    /\ alg.kind \in TierKinds
    /\ Len(goal) = 4
    /\ known_bound[PosMedals] \in Values(cum_stats)
    /\ \A i \in 0..(Len(goal) - 2) : num_this_medal(ret.val, i) > 0

====
